---- MODULE Spec2Model ----
(***************************************************************************)
(* Model of the message-in-a-bottle chat agent:                            *)
(*   - MessageStorage (server.ts 190-240): the durable store behind the    *)
(*     createMessageInBottle / getMessageInBottle tools;                   *)
(*   - the tool catalog and the executions map (tools.ts);                 *)
(*   - Chat.onChatMessage (server.ts 249-308): cleanup pass, resolution    *)
(*     pass, then the model call with its step budget;                     *)
(*   - the scheduling tools (tools.ts 50-123) over the agent's schedule    *)
(*     table, and Chat.executeTask (server.ts 309-326).                    *)
(* server.ts holds two revisions of the same file; the later one (lines    *)
(* 168-340) is the one modelled.                                           *)
(***************************************************************************)
EXTENDS Integers, Sequences, FiniteSets, TLC

(***************************************************************************)
(* Bounds of the model.                                                    *)
(***************************************************************************)
\* addMessage / getMessage calls in the small store specification
MaxAdds == 4
MaxGets == 3
\* addMessage / getMessage calls in the specification that fills the store
\* past its capacity
FillAdds == 102
FillGets == 1
\* turns of the conversation and tool calls the model requests in them
MaxTurns == 3
MaxCalls == 2
\* constructions of the MessageStorage instance over storage it already built
MaxRestarts == 2
\* scheduleTask calls, cancelScheduledTask calls, task firings, and the
\* distinct descriptions the calls carry
MaxSchedules == 2
MaxCancels == 2
MaxFires == 2
MaxDescs == 2

\* The conversations (Chat agents) that share the one MessageStorage instance
\* named "allMessages" (tools.ts 147-148, 155-156).
Convs == {"c1", "c2"}

(***************************************************************************)
(* Values.                                                                 *)
(***************************************************************************)
\* A text: a fixed string of the program, or the n-th distinct user message.
Str(s) == [s |-> s, n |-> 0]
Msg(k) == [s |-> "message", n |-> k]

\* JavaScript values read back from a cursor row.
Num(k) == [t |-> "number", n |-> k]
Undefined == [t |-> "undefined", n |-> 0]

\* arr[i] in JavaScript: 0-based, undefined past the end.
JsIndex(arr, i) == IF i + 1 \in DOMAIN arr THEN arr[i + 1] ELSE Undefined

\* a > k in JavaScript for a number k: undefined converts to NaN, and every
\* comparison with NaN is false.
JsGt(a, k) == a.t = "number" /\ a.n > k

\* a == k in JavaScript for a number k: undefined == 0 is false.
JsLooseEq(a, k) == a.t = "number" /\ a.n = k

\* The capacity the count is compared with.
Capacity == 100

AddAck == Str("Message successfully added")
EmptySignal == Str("No currently existing messages in bottles")
TypeError == Str("TypeError: Cannot read properties of undefined")

\* `entry` when the cursor has no row: next().value is undefined.
NoRow == [id |-> 0, msg |-> Str("undefined")]

(***************************************************************************)
(* State.                                                                  *)
(***************************************************************************)
VARIABLES
    rows,        \* the messages table: a set of [id, msg] rows
    susp,        \* per conversation: the locals of its call suspended at an await
    lastOp,      \* the last completed store call and what it returned
    nAdd,        \* completed addMessage calls
    nGet,        \* completed getMessage calls
    returned,    \* the texts getMessage has returned, in order
    given,       \* per stored id, the text given to the addMessage behind it
    serialRows,  \* the table of a store that runs the completed calls serially
    serialOk,    \* every completed call was possible in that serial store
    maxId,       \* the largest id any INSERT has assigned so far
    nRestart     \* how often the instance was constructed again

storeVars ==
    <<rows, susp, lastOp, nAdd, nGet, returned, given, serialRows, serialOk,
      maxId, nRestart>>

VARIABLES
    messages,    \* Chat.messages: the conversation's persisted transcript
    pc,          \* where onChatMessage stands: idle, resolving or model
    work,        \* cleanedMessages, then processedMessages, of the turn
    steps,       \* model steps streamText has run in this turn
    nTurns,      \* turns started so far
    nextCall,    \* the next tool call id
    execCount,   \* per tool call id, how often its execution function ran
    cancelled    \* the turn's abort signal has fired

\* What a turn leaves alone in Chat when it leaves the transcript alone.
turnVars == <<pc, work, steps, nTurns, nextCall, execCount, cancelled>>

chatVars == <<messages, turnVars>>

VARIABLES
    tasks,       \* the agent's schedule table: [id, trigger, callback, payload]
    lastSched,   \* the last scheduling tool call, or task firing, and its result
    asked,       \* per registered id, the description scheduleTask was given
    nSched,      \* scheduleTask calls made
    nCancel,     \* cancelScheduledTask calls made
    nFire        \* task firings

schedVars == <<tasks, lastSched, asked, nSched, nCancel, nFire>>

vars == <<storeVars, chatVars, schedVars>>

(***************************************************************************)
(* The SQL statements of MessageStorage.                                   *)
(***************************************************************************)
\* SELECT COUNT(*) FROM messages; .raw().next().value : a row of one column.
CountRow(tbl) == <<Num(Cardinality(tbl))>>

\* SELECT * FROM messages ORDER BY RANDOM() LIMIT 1; .raw().next().value :
\* any stored row, or undefined when the table is empty.
RandomRow(tbl) == IF tbl = {} THEN {NoRow} ELSE tbl

\* DELETE FROM messages WHERE id = ?
DeleteByIdMut(tbl, id) == {r \in tbl : r.id > id}
DeleteById(tbl, id) == {r \in tbl : r.id # id}

\* The rowid SQLite gives an INTEGER PRIMARY KEY column left out of the
\* INSERT: one more than the largest rowid in the table, 1 for an empty table.
NextId(tbl) ==
    IF tbl = {} THEN 1
    ELSE (CHOOSE r \in tbl : \A q \in tbl : q.id <= r.id).id + 1

\* INSERT INTO messages (msg) VALUES(?)
InsertMsg(tbl, msg) == tbl \cup {[id |-> NextId(tbl), msg |-> msg]}

(***************************************************************************)
(* MessageStorage.addMessage and getMessage, as functions of the table and *)
(* of the row the random SELECT yields.                                    *)
(***************************************************************************)
\* The condition of addMessage's if statement.
AtCapacity(tbl) == JsGt(JsIndex(CountRow(tbl), 1), Capacity)

\* The condition of getMessage's if statement.
SeesEmpty(tbl) == JsLooseEq(JsIndex(CountRow(tbl), 1), 0)

\* The rows the random SELECT of addMessage can yield once the condition
\* was evaluated to atCap (NoRow: not executed, or no row).
EvictChoices(tbl, atCap) == IF atCap THEN RandomRow(tbl) ELSE {NoRow}

AddChoices(tbl) == EvictChoices(tbl, AtCapacity(tbl))

\* The part of addMessage after the count was read: entry[0] throws on
\* undefined.
AddMessageFinish(tbl, msg, atCap, entry) ==
    LET afterEvict == IF atCap THEN DeleteById(tbl, entry.id) ELSE tbl
    IN  IF atCap /\ entry = NoRow
        THEN [rows |-> tbl, threw |-> TRUE, result |-> TypeError]
        ELSE [rows |-> InsertMsg(afterEvict, msg), threw |-> FALSE,
              result |-> AddAck]

AddMessageRun(tbl, msg, entry) ==
    AddMessageFinish(tbl, msg, AtCapacity(tbl), entry)

\* The rows the random SELECT of getMessage can yield (NoRow: not executed,
\* or executed on an empty table).
GetChoices(tbl) == IF SeesEmpty(tbl) THEN {NoRow} ELSE RandomRow(tbl)

\* The part of getMessage after the SELECT: entry[0] throws on undefined.
GetMessageFinishMut(tbl, entry) ==
    IF entry = NoRow
    THEN [rows |-> tbl, threw |-> TRUE, result |-> TypeError]
    ELSE [rows |-> tbl, threw |-> FALSE, result |-> entry.msg]
GetMessageFinish(tbl, entry) ==
    IF entry = NoRow
    THEN [rows |-> tbl, threw |-> TRUE, result |-> TypeError]
    ELSE [rows |-> DeleteById(tbl, entry.id), threw |-> FALSE,
          result |-> entry.msg]

GetMessageRun(tbl, entry) ==
    IF SeesEmpty(tbl)
    THEN [rows |-> tbl, threw |-> FALSE, result |-> EmptySignal]
    ELSE GetMessageFinish(tbl, entry)

\* The places inside a handler's body where it awaits, and so where another
\* call to the same instance could run before the handler goes on: the
\* bodies of addMessage and getMessage hold no await, every sql.exec is
\* synchronous.
AwaitsMut(op) == IF op = "getMessage" THEN {"selected"} ELSE {"counted"}
Awaits(op) == {}

(***************************************************************************)
(* The store's calls.                                                      *)
(***************************************************************************)
NoOp == [op |-> "none", arg |-> Str(""), threw |-> FALSE, result |-> Str("")]

\* What a handler suspended at an await holds in its locals.
NoSusp == [op |-> "none", atCap |-> FALSE, entry |-> NoRow]

\* The constructor's statement, run inside blockConcurrencyWhile:
\* CREATE TABLE IF NOT EXISTS messages(...). A table that exists is kept with
\* its rows, a missing one is created empty.
ConstructorMut(exists, tbl) == {}
Constructor(exists, tbl) == IF exists THEN tbl ELSE {}

InitStore ==
    /\ rows = Constructor(FALSE, {})
    /\ susp = [c \in Convs |-> NoSusp]
    /\ lastOp = NoOp
    /\ nAdd = 0
    /\ nGet = 0
    /\ returned = <<>>
    /\ given = {}
    /\ serialRows = {}
    /\ serialOk = TRUE
    /\ maxId = 0
    /\ nRestart = 0

\* The completion of an addMessage call.
AddComplete(c, msg, run, entry) ==
    /\ rows' = run.rows
    /\ lastOp' = [op |-> "addMessage", arg |-> msg,
                  threw |-> run.threw, result |-> run.result]
    /\ nAdd' = nAdd + 1
    /\ given' = IF run.threw THEN given
                ELSE {g \in given : \E r \in run.rows : r.id = g.id}
                     \cup {[id |-> r.id, msg |-> msg] : r \in run.rows \ rows}
    /\ serialRows' = AddMessageRun(serialRows, msg, entry).rows
    /\ serialOk' = (serialOk /\ entry \in AddChoices(serialRows))
    /\ susp' = [susp EXCEPT ![c] = NoSusp]
    /\ maxId' = IF \E r \in run.rows \ rows : r.id > maxId
                THEN (CHOOSE r \in run.rows \ rows : r.id > maxId).id
                ELSE maxId
    /\ UNCHANGED <<nGet, returned, nRestart>>

\* A conversation's createMessageInBottle execution: stub.addMessage(message).
\* The k-th completed call carries the k-th distinct message.
addMessage(c, maxAdd) ==
    IF susp[c].op = "addMessage"
    THEN \E entry \in EvictChoices(rows, susp[c].atCap) :
            AddComplete(c, Msg(nAdd + 1),
                AddMessageFinish(rows, Msg(nAdd + 1), susp[c].atCap, entry),
                entry)
    ELSE /\ susp[c].op = "none"
         /\ nAdd < maxAdd
         /\ IF "counted" \in Awaits("addMessage")
            THEN /\ susp' = [susp EXCEPT ![c] =
                        [op |-> "addMessage", atCap |-> AtCapacity(rows),
                         entry |-> NoRow]]
                 /\ UNCHANGED <<rows, lastOp, nAdd, nGet, returned, given,
                                serialRows, serialOk, maxId, nRestart>>
            ELSE \E entry \in AddChoices(rows) :
                    AddComplete(c, Msg(nAdd + 1),
                        AddMessageRun(rows, Msg(nAdd + 1), entry), entry)

\* The completion of a getMessage call that selected `entry`.
GetComplete(c, run, entry) ==
    /\ rows' = run.rows
    /\ lastOp' = [op |-> "getMessage", arg |-> Str(""),
                  threw |-> run.threw, result |-> run.result]
    /\ nGet' = nGet + 1
    /\ returned' = IF run.threw \/ run.result = EmptySignal
                   THEN returned ELSE Append(returned, run.result)
    /\ given' = {g \in given : \E r \in run.rows : r.id = g.id}
    /\ serialRows' = GetMessageRun(serialRows, entry).rows
    /\ serialOk' = (serialOk /\ entry \in GetChoices(serialRows))
    /\ susp' = [susp EXCEPT ![c] = NoSusp]
    /\ UNCHANGED <<nAdd, maxId, nRestart>>

\* A conversation's getMessageInBottle execution: stub.getMessage().
getMessage(c, maxGet) ==
    IF susp[c].op = "getMessage"
    THEN GetComplete(c, GetMessageFinish(rows, susp[c].entry), susp[c].entry)
    ELSE /\ susp[c].op = "none"
         /\ nGet < maxGet
         /\ \E entry \in GetChoices(rows) :
              IF "selected" \in Awaits("getMessage") /\ entry # NoRow
              THEN /\ susp' = [susp EXCEPT ![c] =
                          [op |-> "getMessage", atCap |-> FALSE,
                           entry |-> entry]]
                   /\ UNCHANGED <<rows, lastOp, nAdd, nGet, returned, given,
                                  serialRows, serialOk, maxId, nRestart>>
              ELSE GetComplete(c, GetMessageRun(rows, entry), entry)

(***************************************************************************)
(* The tool catalog and the executions map (tools.ts).                     *)
(***************************************************************************)
ToolNames ==
    {"createMessageInBottle", "getMessageInBottle", "getWeatherInformation",
     "getLocalTime", "scheduleTask", "getScheduledTasks",
     "cancelScheduledTask"}

\* Whether the tool definition has an execute function (it then runs without
\* confirmation).
HasExecuteMut(t) ==
    t \in {"createMessageInBottle", "getLocalTime", "scheduleTask",
           "getScheduledTasks", "cancelScheduledTask"}
HasExecute(t) ==
    t \in {"getLocalTime", "scheduleTask", "getScheduledTasks",
           "cancelScheduledTask"}

\* The keys of the executions object, in the order it is written.
ExecutionEntries ==
    <<"createMessageInBottle", "getMessageInBottle", "getWeatherInformation">>

InExecutions(t) == \E i \in DOMAIN ExecutionEntries : ExecutionEntries[i] = t

WeatherUnable == Str("Unable to fetch weather information")
WeatherInfo == Str("weather info")
AutoOutput == Str("auto-executed tool output")

(***************************************************************************)
(* The transcript.                                                         *)
(***************************************************************************)
NoOutput == Str("")
UserText == Str("user text")
ModelText == Str("model text")
DenialOutput == Str("Error: User denied access to tool execution")

TextPart(t) ==
    [kind |-> "text", tool |-> "", callId |-> 0, input |-> t, status |-> "",
     output |-> NoOutput]

\* The input the model gives a tool call: the message for
\* createMessageInBottle (distinct per call), nothing modelled for the others.
CallInput(t, id) == IF t = "createMessageInBottle" THEN Msg(id) ELSE Str("")

ToolPart(t, id, st, out) ==
    [kind |-> "tool", tool |-> t, callId |-> id, input |-> CallInput(t, id),
     status |-> st, output |-> out]

Message(role, parts) == [role |-> role, parts |-> parts]

\* All parts of a transcript, in message order then part order.
RECURSIVE Flat(_)
Flat(t) == IF t = <<>> THEN <<>> ELSE Flat(SubSeq(t, 1, Len(t) - 1)) \o t[Len(t)].parts

\* The transcript with the part of call `id` given status st and output out.
RewritePart(t, id, st, out) ==
    [i \in 1..Len(t) |->
        [t[i] EXCEPT !.parts =
            [j \in 1..Len(t[i].parts) |->
                IF t[i].parts[j].callId = id
                THEN [t[i].parts[j] EXCEPT !.status = st, !.output = out]
                ELSE t[i].parts[j]]]]

\* The transcript with `part` appended to its last message.
AppendPart(t, part) ==
    [t EXCEPT ![Len(t)].parts = Append(@, part)]

(***************************************************************************)
(* cleanupMessages and processToolCalls (./utils).                         *)
(***************************************************************************)
\* A tool invocation that has neither a result nor a human decision.
Dangling(part) ==
    /\ part.kind = "tool"
    /\ part.status \notin {"approved", "denied", "completed", "errored"}

\* The cleanup pass: the trailing dangling tool invocations are removed, and
\* a message left without parts goes with them.
RECURSIVE cleanupMessagesMut(_)
cleanupMessagesMut(t) ==
    IF t = <<>> THEN t
    ELSE LET m == t[Len(t)]
             front == SubSeq(t, 1, Len(t) - 1)
         IN  IF m.parts = <<>> THEN t
             ELSE IF m.parts[Len(m.parts)].kind = "tool"
                  THEN IF Len(m.parts) = 1 THEN cleanupMessagesMut(front)
                       ELSE cleanupMessagesMut(Append(front,
                              [m EXCEPT !.parts = SubSeq(@, 1, Len(@) - 1)]))
                  ELSE t
RECURSIVE cleanupMessages(_)
cleanupMessages(t) ==
    IF t = <<>> THEN t
    ELSE LET m == t[Len(t)]
             front == SubSeq(t, 1, Len(t) - 1)
         IN  IF m.parts = <<>> THEN t
             ELSE IF Dangling(m.parts[Len(m.parts)])
                  THEN IF Len(m.parts) = 1 THEN cleanupMessages(front)
                       ELSE cleanupMessages(Append(front,
                              [m EXCEPT !.parts = SubSeq(@, 1, Len(@) - 1)]))
                  ELSE t

\* The parts the resolution pass still has to resolve: confirmation-required
\* tool invocations carrying a human decision.
Decided(part) ==
    /\ part.kind = "tool"
    /\ InExecutions(part.tool)
    /\ part.status \in {"approved", "denied"}

\* The positions of the decided parts of a transcript, and the first of them
\* (message order, then insertion order).
DecidedAt(t) == {i \in DOMAIN Flat(t) : Decided(Flat(t)[i])}

FirstDecided(t) ==
    Flat(t)[CHOOSE i \in DecidedAt(t) : \A j \in DecidedAt(t) : i <= j]

\* The instance is evicted between two calls and constructed again over the
\* same durable storage: the constructor runs once more.
restart ==
    /\ \A c \in Convs : susp[c].op = "none"
    /\ nRestart < MaxRestarts
    /\ nRestart' = nRestart + 1
    /\ rows' = Constructor(TRUE, rows)
    /\ serialRows' = Constructor(TRUE, serialRows)
    /\ UNCHANGED <<susp, lastOp, nAdd, nGet, returned, given, serialOk, maxId>>

(***************************************************************************)
(* Chat.onChatMessage: one turn of the conversation.                       *)
(***************************************************************************)
\* The step budget of a turn: stopWhen: stepCountIs(30).
StepBudget == 30

InitChat ==
    /\ messages = <<>>
    /\ pc = "idle"
    /\ work = <<>>
    /\ steps = 0
    /\ nTurns = 0
    /\ nextCall = 1
    /\ execCount = [id \in 1..MaxCalls |-> 0]
    /\ cancelled = FALSE

\* The status of the part of call `id` in a transcript ("none": no such part).
StatusOf(t, id) ==
    IF \E i \in DOMAIN Flat(t) : Flat(t)[i].callId = id
    THEN Flat(t)[CHOOSE i \in DOMAIN Flat(t) : Flat(t)[i].callId = id].status
    ELSE "none"

\* The requests a client can send: a new user message, the human's decision
\* on a call that awaits confirmation, or the history as it stands.
Requests(t) ==
    {[type |-> "text", id |-> 0], [type |-> "reload", id |-> 0]}
    \cup {[type |-> d, id |-> id] :
            d \in {"approve", "deny"},
            id \in {k \in 1..MaxCalls : StatusOf(t, k) = "pending-confirmation"}}

\* The persisted transcript once the request was received.
Received(t, req) ==
    CASE req.type = "text" -> Append(t, Message("user", <<TextPart(UserText)>>))
      [] req.type = "approve" -> RewritePart(t, req.id, "approved", NoOutput)
      [] req.type = "deny" -> RewritePart(t, req.id, "denied", NoOutput)
      [] OTHER -> t

\* const cleanedMessages = cleanupMessages(this.messages)
CleanedMessagesMut(t) == t
CleanedMessages(t) == cleanupMessages(t)

\* The start of onChatMessage: up to the first await, inside processToolCalls.
onChatMessage(req) ==
    /\ pc = "idle"
    /\ nTurns < MaxTurns
    /\ messages' = Received(messages, req)
    /\ work' = CleanedMessages(messages')
    /\ pc' = "resolving"
    /\ steps' = 0
    /\ nTurns' = nTurns + 1
    /\ cancelled' = FALSE
    /\ UNCHANGED <<nextCall, execCount, storeVars, schedVars>>

\* The function behind a tool call, run on the store: executions[name] for a
\* confirmation-required tool, tool.execute for an auto-executing one.
ExecStore(part) ==
    CASE part.tool = "createMessageInBottle" ->
            \E entry \in AddChoices(rows) :
                AddComplete("c1", part.input,
                    AddMessageRun(rows, part.input, entry), entry)
      [] part.tool = "getMessageInBottle" ->
            \E entry \in GetChoices(rows) :
                GetComplete("c1", GetMessageRun(rows, entry), entry)
      [] OTHER -> UNCHANGED storeVars

\* What that function returns or throws, once ExecStore has run.
ExecOutcomes(part) ==
    CASE part.tool \in {"createMessageInBottle", "getMessageInBottle"} ->
            {[threw |-> lastOp'.threw, result |-> lastOp'.result]}
      [] part.tool = "getWeatherInformation" ->
            {[threw |-> FALSE, result |-> WeatherUnable],
             [threw |-> FALSE, result |-> WeatherInfo]}
      [] OTHER -> {[threw |-> FALSE, result |-> AutoOutput]}

Bump(id) ==
    IF id \in DOMAIN execCount THEN [execCount EXCEPT ![id] = @ + 1]
    ELSE [i \in DOMAIN execCount \cup {id} |->
            IF i = id THEN 1 ELSE execCount[i]]

\* processToolCalls resolves the next decided part: an approved call runs its
\* execution function and is completed with the output, a denied call is
\* completed with the denial output. An execution that throws ends the turn.
ResolveNext ==
    /\ pc = "resolving"
    /\ DecidedAt(work) # {}
    /\ LET part == FirstDecided(work)
       IN  IF part.status = "denied"
           THEN /\ work' = RewritePart(work, part.callId, "completed", DenialOutput)
                /\ messages' = RewritePart(messages, part.callId, "completed",
                                           DenialOutput)
                /\ UNCHANGED <<pc, execCount, storeVars>>
           ELSE /\ ExecStore(part)
                /\ execCount' = Bump(part.callId)
                /\ \E out \in ExecOutcomes(part) :
                     IF out.threw
                     THEN /\ pc' = "idle"
                          /\ work' = <<>>
                          /\ UNCHANGED messages
                     ELSE /\ work' = RewritePart(work, part.callId,
                                                 "completed", out.result)
                          /\ messages' = RewritePart(messages, part.callId,
                                                     "completed", out.result)
                          /\ UNCHANGED pc
    /\ UNCHANGED <<steps, nTurns, nextCall, cancelled, schedVars>>

\* `await processToolCalls(...)`: onChatMessage goes on to streamText only
\* once the resolution pass has returned, with no decided part left.
ResolutionCompleteMut(t) == TRUE
ResolutionComplete(t) == DecidedAt(t) = {}

\* processToolCalls returns: the model is called with the processed messages.
ResolveDone ==
    /\ pc = "resolving"
    /\ ResolutionComplete(work)
    /\ pc' = "model"
    /\ UNCHANGED <<messages, work, steps, nTurns, nextCall, execCount,
                   cancelled, storeVars, schedVars>>

\* The response message of the turn with one more part.
WithOutput(part) ==
    IF steps = 0 THEN Append(messages, Message("assistant", <<part>>))
    ELSE AppendPart(messages, part)

\* streamText: the model answers with text, which ends the turn.
ModelAnswers ==
    /\ pc = "model"
    /\ messages' = WithOutput(TextPart(ModelText))
    /\ pc' = "idle"
    /\ work' = <<>>
    /\ UNCHANGED <<steps, nTurns, nextCall, execCount, cancelled, storeVars,
                   schedVars>>

\* stopWhen: stepCountIs(30): the loop stops after the step that makes the
\* turn's step count reach the budget.
BudgetReachedMut(n) == FALSE
BudgetReached(n) == n >= StepBudget

\* streamText: the model requests tool t. A tool with an execute function
\* runs at once and the loop goes on while the step budget lasts; a tool
\* without one is left awaiting confirmation and the turn ends. The model
\* requests at most maxCalls tool calls in all.
ModelCalls(t, maxCalls) ==
    /\ pc = "model"
    /\ nextCall <= maxCalls
    /\ nextCall' = nextCall + 1
    /\ IF HasExecute(t)
       THEN LET part == ToolPart(t, nextCall, "auto-executing", NoOutput)
            IN  /\ ExecStore(part)
                /\ execCount' = Bump(nextCall)
                /\ \E out \in ExecOutcomes(part) :
                     messages' = WithOutput(
                        [part EXCEPT !.status = IF out.threw THEN "errored"
                                                ELSE "completed",
                                     !.output = out.result])
                /\ steps' = steps + 1
                /\ pc' = IF BudgetReached(steps + 1) THEN "idle" ELSE "model"
                /\ work' = IF BudgetReached(steps + 1) THEN <<>> ELSE work
       ELSE /\ messages' = WithOutput(
                    ToolPart(t, nextCall, "pending-confirmation", NoOutput))
            /\ pc' = "idle"
            /\ work' = <<>>
            /\ UNCHANGED <<steps, execCount, storeVars>>
    /\ UNCHANGED <<nTurns, cancelled, schedVars>>

ModelCallsTool(t) == ModelCalls(t, MaxCalls)

\* The client cancels the request of the running turn: the abort signal
\* handed to onChatMessage as _options.abortSignal fires. onChatMessage does
\* not read _options and gives streamText no abortSignal.
abort ==
    /\ pc # "idle"
    /\ ~cancelled
    /\ cancelled' = TRUE
    /\ UNCHANGED <<messages, pc, work, steps, nTurns, nextCall, execCount,
                   storeVars, schedVars>>

(***************************************************************************)
(* The scheduling tools (tools.ts 50-123) and Chat.executeTask.             *)
(***************************************************************************)
\* The values a `when` object's fields can hold.
DateValue == [t |-> "date", n |-> 1]
DelayValue == [t |-> "number", n |-> 5]
CronValue == [t |-> "string", n |-> 1]

\* The discriminators of the tool's input schema.
ScheduleTypes == {"scheduled", "delayed", "cron", "no-schedule"}

\* The `when` objects the schema admits: every field but type is optional.
Whens ==
    [type : ScheduleTypes, date : {Undefined, DateValue},
     delayInSeconds : {Undefined, DelayValue}, cron : {Undefined, CronValue}]

NoWhen ==
    [type |-> "", date |-> Undefined, delayInSeconds |-> Undefined,
     cron |-> Undefined]

\* The k-th distinct task description, and the text executeTask builds from
\* one: `Running scheduled task: ${description}`.
Desc(k) == [s |-> "description", n |-> k]
Descriptions == {Desc(k) : k \in 1..MaxDescs}
NoDesc == Str("")
TaskText(description) ==
    [s |-> "Running scheduled task: description", n |-> description.n]

\* What a scheduling tool returns: a text with the values it interpolates,
\* or the list of tasks.
SchedResult(kind, type, input, id, list) ==
    [kind |-> kind, type |-> type, input |-> input, id |-> id, list |-> list]

NoResult == SchedResult("", "", Undefined, 0, {})
InvalidInput == SchedResult("Not a valid schedule input", "", Undefined, 0, {})
\* `Task scheduled for type "${when.type}" : ${input}`
ScheduledText(type, input) ==
    SchedResult("Task scheduled for type", type, input, 0, {})
ErrorScheduling == SchedResult("Error scheduling task", "", Undefined, 0, {})
NoTasksFound == SchedResult("No scheduled tasks found.", "", Undefined, 0, {})
TaskList(list) == SchedResult("tasks", "", Undefined, 0, list)
\* `Task ${taskId} has been successfully canceled.`
CanceledText(id) ==
    SchedResult("Task has been successfully canceled.", "", Undefined, id, {})
\* `Error canceling task ${taskId}: ${error}`
ErrorCanceling(id) == SchedResult("Error canceling task", "", Undefined, id, {})

\* The value of throwError(...): the call does not return.
Thrown == [t |-> "thrown", n |-> 0]

\* const input = when.type === "scheduled" ? when.date : ... : throwError(...)
ScheduleInputMut(when) ==
    CASE when.type = "scheduled" -> when.date
      [] when.type = "delayed" -> when.date
      [] when.type = "cron" -> when.cron
      [] OTHER -> Thrown
ScheduleInput(when) ==
    CASE when.type = "scheduled" -> when.date
      [] when.type = "delayed" -> when.delayInSeconds
      [] when.type = "cron" -> when.cron
      [] OTHER -> Thrown

\* agent.schedule(input, "executeTask", description): a Date, a number of
\* seconds or a cron string registers a task under a fresh id; anything else
\* fails. A failure shows as an exception thrown by the call or as a
\* rejection of the promise the call returns.
ValidTrigger(input) == input.t \in {"date", "number", "string"}

ScheduleFailures == {"throws", "rejects"}

AgentSchedule(tbl, id, input, payload) ==
    IF ValidTrigger(input)
    THEN {[failure |-> "none",
           tasks |-> tbl \cup {[id |-> id, trigger |-> input,
                                callback |-> "executeTask",
                                payload |-> payload]}]}
    ELSE {[failure |-> f, tasks |-> tbl] : f \in ScheduleFailures}

\* scheduleTask.execute: the call to agent.schedule is not awaited, so only an
\* exception thrown by the call itself reaches the catch block.
ScheduleTaskRun(tbl, id, when, description) ==
    IF when.type = "no-schedule"
    THEN {[threw |-> FALSE, result |-> InvalidInput, tasks |-> tbl,
           input |-> Undefined, failed |-> FALSE, registered |-> 0]}
    ELSE LET input == ScheduleInput(when)
         IN  IF input = Thrown
             THEN {[threw |-> TRUE, result |-> NoResult, tasks |-> tbl,
                    input |-> input, failed |-> FALSE, registered |-> 0]}
             ELSE {[threw |-> FALSE,
                    result |-> IF o.failure = "throws" THEN ErrorScheduling
                               ELSE ScheduledText(when.type, input),
                    tasks |-> o.tasks,
                    input |-> input,
                    failed |-> o.failure # "none",
                    registered |-> IF o.failure = "none" THEN id ELSE 0] :
                   o \in AgentSchedule(tbl, id, input, description)}

\* agent.getSchedules()
AgentGetSchedules(tbl) == tbl

\* getScheduledTasks.execute
GetScheduledTasksRun(tbl) ==
    IF AgentGetSchedules(tbl) = {} THEN NoTasksFound
    ELSE TaskList(AgentGetSchedules(tbl))

\* agent.cancelSchedule(taskId): removes the task of that id; for an id that
\* is not registered it removes nothing and reports so in the value it
\* returns, without throwing.
AgentCancelSchedule(tbl, id) ==
    [threw |-> FALSE,
     found |-> \E t \in tbl : t.id = id,
     tasks |-> {t \in tbl : t.id # id}]

\* cancelScheduledTask.execute: the value cancelSchedule returns is not used.
CancelScheduledTaskRun(tbl, id) ==
    LET o == AgentCancelSchedule(tbl, id)
    IN  [threw |-> FALSE,
         result |-> IF o.threw THEN ErrorCanceling(id) ELSE CanceledText(id),
         tasks |-> o.tasks]

SchedCall(tool, when, description, id, threw, result, failed, registered) ==
    [tool |-> tool, when |-> when, desc |-> description, id |-> id,
     threw |-> threw, result |-> result, failed |-> failed,
     registered |-> registered]

InitSched ==
    /\ tasks = {}
    /\ lastSched = SchedCall("none", NoWhen, NoDesc, 0, FALSE, NoResult, FALSE, 0)
    /\ asked = {}
    /\ nSched = 0
    /\ nCancel = 0
    /\ nFire = 0

\* The model calls scheduleTask; the task, if one is registered, gets the
\* next fresh id.
scheduleTask(when, description) ==
    /\ nSched < MaxSchedules
    /\ nSched' = nSched + 1
    /\ \E run \in ScheduleTaskRun(tasks, nSched + 1, when, description) :
         /\ tasks' = run.tasks
         /\ lastSched' = SchedCall("scheduleTask", when, description, 0,
                                   run.threw, run.result, run.failed,
                                   run.registered)
         /\ asked' = IF run.registered = 0 THEN asked
                     ELSE asked \cup {[id |-> run.registered,
                                       desc |-> description]}
    /\ UNCHANGED <<nCancel, nFire>>

\* The model calls getScheduledTasks.
getScheduledTasks ==
    /\ lastSched' = SchedCall("getScheduledTasks", NoWhen, NoDesc, 0, FALSE,
                              GetScheduledTasksRun(tasks), FALSE, 0)
    /\ UNCHANGED <<tasks, asked, nSched, nCancel, nFire>>

\* The model calls cancelScheduledTask with some id.
cancelScheduledTask(taskId) ==
    /\ nCancel < MaxCancels
    /\ nCancel' = nCancel + 1
    /\ LET run == CancelScheduledTaskRun(tasks, taskId)
       IN  /\ tasks' = run.tasks
           /\ lastSched' = SchedCall("cancelScheduledTask", NoWhen, NoDesc,
                                     taskId, run.threw, run.result, FALSE, 0)
    /\ UNCHANGED <<asked, nSched, nFire>>

\* Chat.executeTask: saveMessages([...this.messages, the new user message]).
ExecuteTaskMessagesMut(msgs, description) ==
    <<Message("user", <<TextPart(TaskText(description))>>)>>
ExecuteTaskMessages(msgs, description) ==
    Append(msgs, Message("user", <<TextPart(TaskText(description))>>))

executeTask(description) ==
    messages' = ExecuteTaskMessages(messages, description)

\* A registered task comes due: the agent invokes the task's callback with
\* its payload; a one-shot task (date or delay) is then removed, a cron task
\* stays.
fire(task) ==
    /\ nFire < MaxFires
    /\ nFire' = nFire + 1
    /\ executeTask(task.payload)
    /\ tasks' = IF task.trigger.t = "string" THEN tasks ELSE tasks \ {task}
    /\ lastSched' = SchedCall("executeTask", NoWhen, task.payload, task.id,
                              FALSE, NoResult, FALSE, 0)
    /\ UNCHANGED <<asked, nSched, nCancel>>

(***************************************************************************)
(* Specifications.                                                         *)
(***************************************************************************)
Init == InitStore /\ InitChat /\ InitSched

\* The store, called by the conversations.
StoreAdd(c) == addMessage(c, MaxAdds) /\ UNCHANGED <<chatVars, schedVars>>
StoreGet(c) == getMessage(c, MaxGets) /\ UNCHANGED <<chatVars, schedVars>>

Restart == restart /\ UNCHANGED <<chatVars, schedVars>>

Next ==
    \/ \E c \in Convs :
        \/ StoreAdd(c)
        \/ StoreGet(c)
    \/ Restart

Spec == Init /\ [][Next]_vars

\* The same store, filled past its capacity.
FillAdd(c) == addMessage(c, FillAdds) /\ UNCHANGED <<chatVars, schedVars>>
FillGet(c) == getMessage(c, FillGets) /\ UNCHANGED <<chatVars, schedVars>>

NextFill ==
    \E c \in Convs :
        \/ FillAdd(c)
        \/ FillGet(c)

SpecFill == Init /\ [][NextFill]_vars

\* One conversation, its turns, and the store behind its bottle tools.
NextChat ==
    \/ \E req \in Requests(messages) : onChatMessage(req)
    \/ ResolveNext
    \/ ResolveDone
    \/ ModelAnswers
    \/ \E t \in ToolNames : ModelCallsTool(t)

SpecChat == Init /\ [][NextChat]_vars

\* The same conversation, with requests that are cancelled.
Abort == abort

NextCancel ==
    \/ \E req \in Requests(messages) : onChatMessage(req)
    \/ ResolveNext
    \/ ResolveDone
    \/ ModelAnswers
    \/ \E t \in ToolNames : ModelCallsTool(t)
    \/ Abort

SpecCancel == Init /\ [][NextCancel]_vars

\* A conversation whose model requests an auto-executing tool at every step.
LoopTools == {"getLocalTime"}
LoopCalls == MaxTurns * (StepBudget + 1)

ModelLoops == \E t \in LoopTools : ModelCalls(t, LoopCalls)

NextLoop ==
    \/ \E req \in Requests(messages) : onChatMessage(req)
    \/ ResolveDone
    \/ ModelLoops

\* A turn that has started goes on: the resolution pass returns, and the
\* model takes its next step.
SpecLoop ==
    /\ Init
    /\ [][NextLoop]_vars
    /\ WF_vars(ResolveDone)
    /\ WF_vars(ModelLoops)

\* The scheduling tools, called directly, and the firing of the tasks.
ScheduleCall(when, description) ==
    /\ scheduleTask(when, description)
    /\ UNCHANGED <<storeVars, chatVars>>
ListCall == getScheduledTasks /\ UNCHANGED <<storeVars, chatVars>>
CancelCall(taskId) ==
    cancelScheduledTask(taskId) /\ UNCHANGED <<storeVars, chatVars>>
Fire(task) == fire(task) /\ UNCHANGED <<storeVars, turnVars>>

NextSched ==
    \/ \E when \in Whens, description \in Descriptions :
            ScheduleCall(when, description)
    \/ ListCall
    \/ \E taskId \in 1..MaxSchedules : CancelCall(taskId)
    \/ \E task \in tasks : Fire(task)

SpecSched == Init /\ [][NextSched]_vars

(***************************************************************************)
(* Properties of the store.                                                *)
(***************************************************************************)
Count(tbl) == Cardinality(tbl)

StoredTexts == {r.msg : r \in rows}

\* A step in which an addMessage call returns / a getMessage call returns.
AddReturns == nAdd' = nAdd + 1
GetReturns == nGet' = nGet + 1

\* C1: after every addMessage and getMessage call the number of stored
\* entries is at most the capacity of 100.
C1_CountAtMostCapacity == Count(rows) <= Capacity

\* C2: an addMessage on a store of exactly 100 entries deletes exactly one
\* stored entry and adds the new one, so the count stays 100; on a store of
\* fewer than 100 entries it deletes nothing and the count grows by one.
C2_InsertEvictsAtCapacity ==
    [][AddReturns =>
        /\ Count(rows) = Capacity =>
              /\ Count(rows \ rows') = 1
              /\ Count(rows' \ rows) = 1
              /\ Count(rows') = Capacity
        /\ Count(rows) < Capacity =>
              /\ rows \subseteq rows'
              /\ Count(rows') = Count(rows) + 1]_vars

\* C3: the entry an addMessage call creates is stored when the call returns,
\* and after 101 distinct messages were inserted into an empty store the
\* count is 100 and the 101st message is stored.
C3_NewestStoredAfter101 ==
    /\ lastOp.op = "addMessage" => lastOp.arg \in StoredTexts
    /\ (nAdd = Capacity + 1 /\ nGet = 0) =>
          /\ Count(rows) = Capacity
          /\ Msg(Capacity + 1) \in StoredTexts

\* C4: getMessage on a store with no entries returns the empty-signal, raises
\* no error and leaves the store unchanged.
C4_PopOnEmptyGivesSignal ==
    [][(GetReturns /\ rows = {}) =>
        /\ lastOp'.result = EmptySignal
        /\ ~lastOp'.threw
        /\ rows' = rows]_vars

\* C5: getMessage on a store with n >= 1 entries deletes exactly one stored
\* entry, returns that entry's text as it was given to the addMessage that
\* created it, leaves the other n-1 entries unchanged and lowers the count
\* by one.
C5_PopRemovesOneAndReturnsIt ==
    [][(GetReturns /\ rows # {}) =>
        \E r \in rows :
            /\ rows' = rows \ {r}
            /\ Count(rows') = Count(rows) - 1
            /\ ~lastOp'.threw
            /\ lastOp'.result = r.msg
            /\ [id |-> r.id, msg |-> lastOp'.result] \in given]_vars

C5_Witness ==
    /\ lastOp.op = "getMessage"
    /\ ~lastOp.threw
    /\ lastOp.result \in {Msg(k) : k \in 1..MaxAdds}
    /\ Count(rows) >= 2

\* C6: over any sequence of calls from any of the conversations, no entry is
\* returned by two getMessage calls, and an entry a pop returned (or that was
\* otherwise deleted) is no longer stored, so no later pop can return it.
C6_NoEntryReturnedTwice ==
    /\ \A i, j \in DOMAIN returned : i # j => returned[i] # returned[j]
    /\ \A i \in DOMAIN returned : returned[i] \notin StoredTexts

C6_Witness == Len(returned) >= 2 /\ rows # {}

\* C7: the calls are atomic: whenever no call is in progress, the table is
\* the one a store gets that runs the completed calls one after the other,
\* each with the row its random SELECT yielded.
C7_Serializable ==
    (\A c \in Convs : susp[c] = NoSusp) => (serialOk /\ rows = serialRows)

C7_Witness ==
    /\ nAdd >= 2
    /\ nGet >= 2
    /\ Len(returned) >= 2
    /\ \A c \in Convs : susp[c] = NoSusp


(***************************************************************************)
(* Properties of the conversation.                                         *)
(***************************************************************************)
Parts(t) == {Flat(t)[i] : i \in DOMAIN Flat(t)}

\* The calls whose execution function runs in this step.
RunsNow(id) == execCount'[id] # execCount[id]

\* Every tool defined without an execute function has exactly one entry of
\* its name in the executions map, and no auto-executing tool has one.
ExecutionsMatchCatalog ==
    \A t \in ToolNames :
        Cardinality({i \in DOMAIN ExecutionEntries : ExecutionEntries[i] = t})
            = (IF HasExecute(t) THEN 0 ELSE 1)

\* C8: the execution function of a confirmation-required tool runs only for
\* a call a human has approved (never for a pending or denied one), the
\* bottle store changes only in a step that runs an approved call, and the
\* executions map holds exactly the tools defined without execute.
C8_ExecutionOnlyWhenApproved ==
    [][/\ ExecutionsMatchCatalog
       /\ \A id \in DOMAIN execCount :
             RunsNow(id) /\ (\E p \in Parts(messages') :
                                p.callId = id /\ InExecutions(p.tool))
                => StatusOf(messages, id) = "approved"
       /\ rows' # rows =>
             \E id \in DOMAIN execCount :
                RunsNow(id) /\ StatusOf(messages, id) = "approved"]_vars

C8_Witness ==
    /\ rows # {}
    /\ \E p \in Parts(messages) :
          /\ p.tool = "createMessageInBottle"
          /\ p.status = "completed"
          /\ execCount[p.callId] = 1
    /\ \E p \in Parts(messages) :
          /\ p.status = "completed"
          /\ p.output = DenialOutput
          /\ execCount[p.callId] = 0

\* C9: an approved call is executed exactly once: the resolution pass of the
\* first turn after the approval executes it and marks it completed, and no
\* later pass executes it again.
C9_ApprovedRunsExactlyOnce ==
    /\ \A id \in DOMAIN execCount : execCount[id] <= 1
    /\ pc # "resolving" =>
          \A p \in Parts(messages) : p.status # "approved"
    /\ \A p \in Parts(messages) :
          (InExecutions(p.tool) /\ p.status = "completed"
              /\ p.output # DenialOutput) => execCount[p.callId] = 1

\* A step in which onChatMessage starts and runs the cleanup pass.
TurnStarts == nTurns' = nTurns + 1

EndsDangling(t) == Flat(t) # <<>> /\ Dangling(Flat(t)[Len(Flat(t))])

NoDangling(t) == \A p \in Parts(t) : ~Dangling(p)

\* The number of dangling parts at the end of a sequence of parts.
RECURSIVE DanglingTail(_)
DanglingTail(ps) ==
    IF ps # <<>> /\ Dangling(ps[Len(ps)])
    THEN 1 + DanglingTail(SubSeq(ps, 1, Len(ps) - 1))
    ELSE 0

C17_IdsStrictlyIncreasing ==
    [][AddReturns =>
        /\ \A r \in rows' \ rows : r.id > maxId
        /\ \A r, q \in rows' : r.id = q.id => r = q]_vars

\* C18: constructing the instance again over existing storage leaves every
\* stored entry as it was, however often it is done.
Restarted == nRestart' = nRestart + 1

C18_RestartKeepsEntries ==
    [][Restarted => rows' = rows /\ Constructor(TRUE, rows') = rows]_vars

C18_Witness == nRestart >= 2 /\ Cardinality(rows) >= 2 /\ nGet >= 1

(***************************************************************************)
(* Properties of the scheduling tools.                                     *)
(***************************************************************************)
ScheduleReturns == nSched' = nSched + 1
CancelReturns == nCancel' = nCancel + 1
Fires == nFire' = nFire + 1

\* What a list call made in the state tbl returns as its tasks.
Listed(tbl) == GetScheduledTasksRun(tbl).list

\* C12: a scheduleTask call that registered a task returns that task's id,
\* and a list call made right after it holds exactly one task of that id;
\* after a cancel call for a registered id was acknowledged, a list call no
\* longer holds a task of that id.
C12_ScheduleReturnsId ==
    [][/\ (ScheduleReturns /\ lastSched'.registered # 0) =>
            /\ lastSched'.result.id = lastSched'.registered
            /\ Cardinality({t \in Listed(tasks') :
                              t.id = lastSched'.registered}) = 1
       /\ (CancelReturns /\ lastSched'.result = CanceledText(lastSched'.id)) =>
            \A t \in Listed(tasks') : t.id # lastSched'.id]_vars

\* The kind of trigger each discriminator stands for, and the field of the
\* `when` object that carries it.
TriggerKind(type) ==
    CASE type = "scheduled" -> "date"
      [] type = "delayed" -> "number"
      [] type = "cron" -> "string"
      [] OTHER -> "none"

TriggerField(when) ==
    CASE when.type = "scheduled" -> when.date
      [] when.type = "delayed" -> when.delayInSeconds
      [] when.type = "cron" -> when.cron
      [] OTHER -> Undefined

\* C13: scheduleTask takes the trigger of a "scheduled", "delayed" or "cron"
\* input from the one field that belongs to the discriminator, so that a
\* task it registers has a trigger of exactly that kind and value; for the
\* remaining discriminator it returns the validation error text, does not
\* throw, and registers no task.
C13_DiscriminatorMapsToTrigger ==
    [][ScheduleReturns =>
        LET call == lastSched'
        IN  IF call.when.type \in {"scheduled", "delayed", "cron"}
            THEN /\ ~call.threw
                 /\ (call.registered # 0) = ValidTrigger(TriggerField(call.when))
                 /\ call.registered # 0 =>
                      \E t \in tasks' \ tasks :
                         /\ t.id = call.registered
                         /\ t.trigger = TriggerField(call.when)
                         /\ t.trigger.t = TriggerKind(call.when.type)
                         /\ tasks' = tasks \cup {t}
            ELSE /\ ~call.threw
                 /\ call.result = InvalidInput
                 /\ call.registered = 0
                 /\ tasks' = tasks]_vars

C13_Witness ==
    /\ lastSched.tool = "scheduleTask"
    /\ lastSched.when.type = "no-schedule"
    /\ \E t \in tasks : t.trigger.t = "number"

\* C14: a cancelScheduledTask call for an id that is not registered does not
\* throw, changes no task, and returns a result that is not the
\* acknowledgement of a successful cancel.
C14_CancelUnknownIsNotFound ==
    [][(CancelReturns /\ ~\E t \in tasks : t.id = lastSched'.id) =>
        /\ ~lastSched'.threw
        /\ tasks' = tasks
        /\ lastSched'.result # CanceledText(lastSched'.id)]_vars

\* C19: every firing of a task invokes executeTask with the description the
\* task was scheduled with, and executeTask appends exactly one user message
\* with the text built from that description to the end of the transcript,
\* leaving every earlier message as it was.
C19_FiringAppendsOneUserMessage ==
    [][Fires =>
        \E a \in asked :
            /\ a.id = lastSched'.id
            /\ lastSched'.desc = a.desc
            /\ messages' = Append(messages,
                   Message("user", <<TextPart(TaskText(a.desc))>>))]_vars

C19_Witness ==
    /\ lastSched.tool = "executeTask"
    /\ nFire >= 2
    /\ Len(messages) >= 2
    /\ messages[1] # messages[2]

\* C20: whenever the registration behind a scheduleTask call fails, the tool
\* returns its error result, not the 'Task scheduled' text, and no task is
\* registered.
C20_FailedRegistrationReturnsError ==
    [][(ScheduleReturns /\ lastSched'.failed) =>
        /\ lastSched'.result = ErrorScheduling
        /\ tasks' = tasks]_vars

(***************************************************************************)
(* Properties of the turn.                                                 *)
(***************************************************************************)
\* The last part of the transcript.
LastPart(t) == Flat(t)[Len(Flat(t))]

\* C11: with a model that requests a tool call at every step, a turn makes
\* at most 30 model steps, it ends when the 30th step is done, idle and with
\* that step's tool output completed, not errored, and every turn that has
\* started ends.
C11_StepBudgetBoundsTurn ==
    /\ [](steps <= StepBudget)
    /\ [](steps = StepBudget =>
            pc = "idle" /\ LastPart(messages).status = "completed")
    /\ (pc # "idle" ~> pc = "idle")

C11_Witness == steps = StepBudget /\ pc = "idle" /\ nTurns >= 2

\* C15: when the abort signal fires during a turn, what the store, the
\* schedule table and the transcript held before it stays in place, and from
\* then on the model produces no further output: the turn ends.
AbortArrives == ~cancelled /\ cancelled'

C15_AbortEndsOutput ==
    [][/\ AbortArrives =>
            (rows' = rows /\ tasks' = tasks /\ messages' = messages)
       /\ (cancelled /\ pc = "model") =>
            (messages' = messages /\ pc' = "idle")]_vars

\* C16: in every turn the cleanup pass has completed when the resolution
\* pass begins, the execution function of an approved call runs only during
\* the resolution pass, and the model is invoked only after that pass, with
\* a transcript that is cleaned and holds no decided call.
C16_CleanupResolutionModelOrder ==
    [][/\ TurnStarts =>
            (pc' = "resolving" /\ work' = cleanupMessages(messages'))
       /\ \A id \in DOMAIN execCount :
            (RunsNow(id) /\ \E p \in Parts(messages') :
                               p.callId = id /\ InExecutions(p.tool))
                => pc = "resolving"
       /\ (pc # "model" /\ pc' = "model") => pc = "resolving"
       /\ pc' = "model" =>
            (DecidedAt(work') = {} /\ cleanupMessages(work') = work')]_vars

C16_Witness ==
    /\ pc = "model"
    /\ \E p \in Parts(work) :
          /\ InExecutions(p.tool)
          /\ p.status = "completed"
          /\ p.output # DenialOutput
          /\ execCount[p.callId] >= 1

====
